---- MODULE Spec2Model ----
(***************************************************************************)
(* A model of the cwalk path library (src/include/cwalk.h).                *)
(*                                                                         *)
(* Memory is one flat array of characters.  A pointer is an index into it  *)
(* (NULL is 0), a C string is the run of characters from a pointer up to   *)
(* the first NUL.  String literals of the source live in a read-only       *)
(* literal area at the start of the memory, the caller's paths in slots    *)
(* after it and the caller's output buffer in a region of its own.  Every  *)
(* function of the header is an operator of the same name that reads and   *)
(* writes this memory the way the C code does.                             *)
(***************************************************************************)
EXTENDS Integers, Sequences, FiniteSets, TLC

\* seg is the cwk_segment structure of the caller, joined its cwk_segment_joined structure,
\* running the calls of get_root that threads have begun on the instance
VARIABLES path_style, mem, call, src, seg, joined, running

vars == <<seg, joined, running, path_style, mem, src, call>>

(***************************************************************************)
(* Characters, styles and the bounds of the model.                         *)
(***************************************************************************)
NUL == "NUL"

\* content of memory the program never initialised
JUNK == "#"

CWK_STYLE_WINDOWS == "CWK_STYLE_WINDOWS"

CWK_STYLE_UNIX == "CWK_STYLE_UNIX"

Styles == {CWK_STYLE_WINDOWS, CWK_STYLE_UNIX}

CWK_NORMAL == "CWK_NORMAL"

CWK_CURRENT == "CWK_CURRENT"

CWK_BACK == "CWK_BACK"

NULL == 0

\* longest path of the single-path specification
MaxLen == 5

\* longest path of the two-path specifications
MaxPairLen == 3

\* longest path of the truncation specification
MaxBufLen == 2

\* largest buffer_size of the truncation specification
MaxSize == 4

\* longest path of the in-place specification
MaxInPlaceLen == 7

\* longest new basename or extension of the in-place specification
MaxValueLen == 2

\* longest path, after its prefix, of the root specification
MaxRootLen == 5

\* longest path whose basename is changed, and longest new basename
MaxBasenameLen == 4

\* longest path whose segments are visited
MaxSegmentLen == 5

\* longest path whose style is guessed
MaxGuessLen == 4

MaxJoinedLen == 3

MaxElisionLen == 3

MaxRaceLen == 4

MaxNameLen == 3

\* characters the single paths are drawn from
Alphabet == <<"a", ".", ":", "/", "\\">>

\* characters the pairs of paths are drawn from
PairAlphabet == <<"a", "A", ".", "/", ":">>

\* characters the paths of the truncation specification are drawn from
BufAlphabet == <<"a", ".", "/">>

\* characters the paths edited in place are drawn from
InPlaceAlphabet == <<"a", ".", "/">>

\* characters the paths of the root specification are drawn from
RootAlphabet == <<"a", ".", "?", ":", "/", "\\">>

\* characters the paths whose roots are compared are drawn from
RelativeAlphabet == <<"a", "A", ":", "/">>

\* characters the paths whose basename is changed, and the new basenames, are drawn from
BasenameAlphabet == <<"a", ":", "/", "\\">>

NameAlphabet == <<"b", "/", "\\">>

\* characters the paths whose segments are visited are drawn from
SegmentAlphabet == <<"a", ":", "/", "\\">>

JoinedAlphabet == <<"a", ":", "/">>

ElisionAlphabet == <<"a", ".", "/">>

RaceAlphabet == <<"a", "?", ":", "/", "\\">>

\* what the paths of the root specification start with: nothing, two separators, or a device
\* prefix followed by UNC
RootPrefixes == {<<>>, <<"\\", "\\">>, <<"\\", "\\", "?", "\\", "U", "N", "C", "\\">>}

Max(a, b) == IF a > b THEN a ELSE b

Min(a, b) == IF a < b THEN a ELSE b

\* size of a slot holding one input path and its NUL
SlotSize == Max(Max(MaxLen, MaxInPlaceLen), Max(MaxPairLen, MaxBufLen)) + 1

\* size of the region holding a derived path, and of the output buffer
BufSize == 4 * SlotSize + 2

(***************************************************************************)
(* Memory layout.                                                          *)
(***************************************************************************)
\* separators[CWK_STYLE_WINDOWS] == "\\/"
SepWindows == 1

\* separators[CWK_STYLE_UNIX] == "/"
SepUnix == 4

\* the literal "\\" of get_absolute
LitBackslash == 6

\* the literal "/" of get_absolute
LitSlash == 8

\* the literal "."
LitDot == 10

\* the literal ".."
LitDotDot == 12

Literals == <<"\\", "/", NUL, "/", NUL, "\\", NUL, "/", NUL, ".", NUL, ".", ".", NUL>>

PathA == Len(Literals) + 1

PathB == PathA + SlotSize

PathC == PathB + SlotSize

Buffer == PathC + BufSize

MemSize == Buffer + BufSize - 1

Pad(s, n) == s \o <<NUL>> \o [i \in 1..(n - Len(s) - 1) |-> JUNK]

\* the memory holding the strings a, b and c in the slots and an untouched buffer
MakeMem(a, b, c) == Literals \o Pad(a, SlotSize) \o Pad(b, SlotSize) \o Pad(c, BufSize) \o [i \in 1..BufSize |-> JUNK]

RECURSIVE strlen(_, _)
strlen(m, p) == IF m[p] = NUL THEN 0 ELSE 1 + strlen(m, p + 1)

\* the C string at p
CStr(m, p) == [i \in 1..strlen(m, p) |-> m[p + i - 1]]

RECURSIVE StringsUpTo(_, _)
StringsUpTo(n, alphabet) == IF n = 0 THEN {<<>>} ELSE LET shorter == StringsUpTo(n - 1, alphabet) IN shorter \cup {Append(s, alphabet[k]) : s \in {t \in shorter : Len(t) = n - 1}, k \in 1..Len(alphabet)}

tolower(c) == IF c = "A" THEN "a" ELSE IF c = "B" THEN "b" ELSE c

(***************************************************************************)
(* Separators and string comparison.                                       *)
(***************************************************************************)
\* the separators of the Windows style, whatever the style
separators_windows(ps) == SepWindows

separators(ps) == IF ps = CWK_STYLE_WINDOWS THEN SepWindows ELSE SepUnix

RECURSIVE is_separator_from(_, _, _)
is_separator_from(m, c, str) == IF m[c] = NUL THEN FALSE ELSE IF m[c] = m[str] THEN TRUE ELSE is_separator_from(m, c + 1, str)

is_separator(m, ps, str) == is_separator_from(m, separators(ps), str)

RECURSIVE strncmp_equal(_, _, _, _)
strncmp_equal(m, first, second, n) == IF n = 0 THEN TRUE ELSE IF m[first] # m[second] THEN FALSE ELSE IF m[first] = NUL THEN TRUE ELSE strncmp_equal(m, first + 1, second + 1, n - 1)

RECURSIVE is_string_equal_windows(_, _, _, _)
is_string_equal_windows(m, first, second, n) == IF m[first] # NUL /\ m[second] # NUL /\ n > 0 THEN (IF tolower(m[first]) # tolower(m[second]) THEN FALSE ELSE is_string_equal_windows(m, first + 1, second + 1, n - 1)) ELSE n = 0 \/ (m[first] = NUL /\ m[second] = NUL)

is_string_equal(m, ps, first, second, n) == IF ps = CWK_STYLE_UNIX THEN strncmp_equal(m, first, second, n) ELSE is_string_equal_windows(m, first, second, n)

RECURSIVE find_next_stop(_, _, _)
find_next_stop(m, ps, c) == IF m[c] # NUL /\ ~is_separator(m, ps, c) THEN find_next_stop(m, ps, c + 1) ELSE c

RECURSIVE find_previous_stop_scan(_, _, _, _)
find_previous_stop_scan(m, ps, begin, c) == IF c > begin /\ ~is_separator(m, ps, c) THEN find_previous_stop_scan(m, ps, begin, c - 1) ELSE c

\* the return of find_previous_stop that does not step over the separator
find_previous_stop_on(m, ps, stop) == stop

\* the return of find_previous_stop, with the place its loop stopped at
find_previous_stop_return(m, ps, stop) == IF is_separator(m, ps, stop) THEN stop + 1 ELSE stop

find_previous_stop(m, ps, begin, c) == find_previous_stop_return(m, ps, find_previous_stop_scan(m, ps, begin, c))

RECURSIVE skip_separators(_, _, _)
skip_separators(m, ps, c) == IF is_separator(m, ps, c) THEN skip_separators(m, ps, c + 1) ELSE c

(***************************************************************************)
(* Roots.                                                                  *)
(***************************************************************************)
\* the end of a network root: the separator after the shared folder name is part of it
\* the end of a network root that leaves out the separator after the shared folder name
get_root_windows_share_name(m, ps, path, share_end) == share_end - path

get_root_windows_share(m, ps, path, share_end) == (IF is_separator(m, ps, share_end) THEN share_end + 1 ELSE share_end) - path

\* a network root: the server name from c on, the separators after it, the shared folder name
get_root_windows_server(m, ps, path, c) == get_root_windows_share(m, ps, path, find_next_stop(m, ps, skip_separators(m, ps, find_next_stop(m, ps, c))))

\* the root of a path that starts with two separators

\* the root of a path that starts with two separators, were there no device paths
get_root_windows_no_device(m, ps, path) == get_root_windows_server(m, ps, path, path + 2)

get_root_windows_network(m, ps, path) ==
  IF m[path + 2] = "?" \/ m[path + 2] = "."
  THEN (IF is_separator(m, ps, path + 3) THEN 4 ELSE get_root_windows_server(m, ps, path, path + 3))
  ELSE get_root_windows_server(m, ps, path, path + 2)

\* get_root_windows that looks for the colon one character too far
get_root_windows_far(m, ps, path) ==
  IF m[path] = NUL THEN 0
  ELSE IF is_separator(m, ps, path) THEN (IF ~is_separator(m, ps, path + 1) THEN 1 ELSE get_root_windows_network(m, ps, path))
  ELSE IF m[path + 2] = ":" THEN 3
  ELSE 0

\* get_root_windows that never looks at the character after the colon
get_root_windows_colon(m, ps, path) ==
  IF m[path] = NUL THEN 0
  ELSE IF is_separator(m, ps, path) THEN (IF ~is_separator(m, ps, path + 1) THEN 1 ELSE get_root_windows_network(m, ps, path))
  ELSE IF m[path + 1] = ":" THEN 2
  ELSE 0

get_root_windows(m, ps, path) ==
  IF m[path] = NUL THEN 0
  ELSE IF is_separator(m, ps, path) THEN (IF ~is_separator(m, ps, path + 1) THEN 1 ELSE get_root_windows_network(m, ps, path))
  ELSE IF m[path + 1] = ":" THEN (IF is_separator(m, ps, path + 2) THEN 3 ELSE 2)
  ELSE 0

get_root_unix(m, ps, path) == IF is_separator(m, ps, path) THEN 1 ELSE 0

get_root(m, ps, path) == IF ps = CWK_STYLE_WINDOWS THEN get_root_windows(m, ps, path) ELSE get_root_unix(m, ps, path)

\* a root counted as absolute as soon as it is not empty
is_root_nonempty(m, ps, path, length) == length > 0

is_root_absolute(m, ps, path, length) == IF length = 0 THEN FALSE ELSE is_separator(m, ps, path + length - 1)

is_absolute(m, ps, path) == is_root_absolute(m, ps, path, get_root(m, ps, path))

is_relative(m, ps, path) == ~is_absolute(m, ps, path)

(***************************************************************************)
(* Segments of one path.  A function that takes a cwk_segment pointer and  *)
(* returns bool yields the record [result, segment]: the returned flag and *)
(* the segment structure as the call leaves it.                            *)
(***************************************************************************)
\* a cwk_segment whose fields were never assigned
NoSegment == [path |-> NULL, segments |-> NULL, begin |-> NULL, end |-> NULL, size |-> 0]

\* return true / return false, leaving the caller's structure as segment
Found(segment) == [result |-> TRUE, segment |-> segment]

NotFound(segment) == [result |-> FALSE, segment |-> segment]

\* the assignments to segment->begin, segment->end and segment->size
segment_between(segment, begin, end) == [segment EXCEPT !.begin = begin, !.end = end, !.size = end - begin]

\* the segment from begin up to its next stop
segment_from(m, ps, segment, begin) == segment_between(segment, begin, find_next_stop(m, ps, begin))

\* the loop of get_first_segment_without_root over leading separators: NULL when the string ends in it
RECURSIVE skip_leading_separators(_, _, _)
skip_leading_separators(m, ps, segments) == IF is_separator(m, ps, segments) THEN (IF m[segments + 1] = NUL THEN NULL ELSE skip_leading_separators(m, ps, segments + 1)) ELSE segments

\* get_first_segment_without_root after its loop, segment being the structure it has reset
first_segment_from(m, ps, segment, begin) == IF begin = NULL THEN NotFound(segment) ELSE Found(segment_from(m, ps, segment, begin))

get_first_segment_without_root(m, ps, path, segments, segment) ==
  IF m[segments] = NUL THEN NotFound([path |-> path, segments |-> segments, begin |-> segments, end |-> segments, size |-> 0])
  ELSE first_segment_from(m, ps, [path |-> path, segments |-> segments, begin |-> segments, end |-> segments, size |-> 0], skip_leading_separators(m, ps, segments))

get_first_segment(m, ps, path, segment) == get_first_segment_without_root(m, ps, path, path + get_root(m, ps, path), segment)

\* get_next_segment after it has skipped the separators up to begin
\* get_next_segment that stores the beginning of the segment before it knows that there is one
next_segment_from_stored(m, ps, segment, begin) == IF m[begin] = NUL THEN NotFound([segment EXCEPT !.begin = begin]) ELSE Found(segment_from(m, ps, segment, begin))

next_segment_from(m, ps, segment, begin) == IF m[begin] = NUL THEN NotFound(segment) ELSE Found(segment_from(m, ps, segment, begin))

get_next_segment(m, ps, segment) == IF m[segment.begin + segment.size] = NUL THEN NotFound(segment) ELSE next_segment_from(m, ps, segment, skip_separators(m, ps, segment.begin + segment.size + 1))

\* the do-while of get_previous_segment: NULL when it runs before segment->segments
RECURSIVE skip_separators_backward(_, _, _, _)
skip_separators_backward(m, ps, segments, c) == IF c - 1 < segments THEN NULL ELSE IF is_separator(m, ps, c - 1) THEN skip_separators_backward(m, ps, segments, c - 1) ELSE c - 1

\* get_previous_segment after its do-while has stopped on c
previous_segment_from(m, ps, segment, c) == IF c = NULL THEN NotFound(segment) ELSE Found(segment_between(segment, find_previous_stop(m, ps, segment.segments, c), c + 1))

get_previous_segment(m, ps, segment) == IF segment.begin <= segment.segments THEN NotFound(segment) ELSE previous_segment_from(m, ps, segment, skip_separators_backward(m, ps, segment.segments, segment.begin))

\* while (get_next_segment(segment)) {}: next is what the last call of get_next_segment yielded
RECURSIVE last_segment_loop(_, _, _)
last_segment_loop(m, ps, next) == IF next.result THEN last_segment_loop(m, ps, get_next_segment(m, ps, next.segment)) ELSE next.segment

\* get_last_segment after it has asked for the first segment
last_segment_after(m, ps, first) == IF ~first.result THEN first ELSE Found(last_segment_loop(m, ps, get_next_segment(m, ps, first.segment)))

get_last_segment(m, ps, path, segment) == last_segment_after(m, ps, get_first_segment(m, ps, path, segment))

get_last_segment_without_root(m, ps, path, segment) == last_segment_after(m, ps, get_first_segment_without_root(m, ps, path, path, segment))

get_segment_type(m, segment) == IF strncmp_equal(m, segment.begin, LitDot, segment.size) THEN CWK_CURRENT ELSE IF strncmp_equal(m, segment.begin, LitDotDot, segment.size) THEN CWK_BACK ELSE CWK_NORMAL

\* the last loop of guess_style: a dot in the segment, from c on
RECURSIVE guess_style_extension(_, _)
guess_style_extension(m, c) == IF m[c] = NUL THEN CWK_STYLE_UNIX ELSE IF m[c] = "." THEN CWK_STYLE_WINDOWS ELSE guess_style_extension(m, c + 1)

\* guess_style after it has asked for the last segment
guess_style_segment(m, last) ==
  IF ~last.result THEN CWK_STYLE_UNIX
  ELSE IF m[last.segment.begin] = "." THEN CWK_STYLE_UNIX
  ELSE guess_style_extension(m, last.segment.begin)

\* the loop of guess_style that looks for the first slash or backslash, from c on
RECURSIVE guess_style_slashes(_, _, _, _)
guess_style_slashes(m, ps, path, c) ==
  IF m[c] = NUL THEN guess_style_segment(m, get_last_segment(m, ps, path, NoSegment))
  ELSE IF m[c] = m[SepUnix] THEN CWK_STYLE_UNIX
  ELSE IF m[c] = m[SepWindows] THEN CWK_STYLE_WINDOWS
  ELSE guess_style_slashes(m, ps, path, c + 1)

guess_style(m, ps, path) == IF get_root_windows(m, ps, path) > 1 THEN CWK_STYLE_WINDOWS ELSE guess_style_slashes(m, ps, path, path)

(***************************************************************************)
(* Segments of a joined path.  paths is the NULL-terminated array of the   *)
(* source, as a sequence; path_index counts from 0.  A function that takes *)
(* a cwk_segment_joined pointer yields [result, sj].                       *)
(***************************************************************************)
\* a cwk_segment_joined whose fields were never assigned
NoJoined == [segment |-> NoSegment, paths |-> <<>>, path_index |-> 0]

PathAt(paths, path_index) == paths[path_index + 1]

FoundJoined(sj) == [result |-> TRUE, sj |-> sj]

NotFoundJoined(sj) == [result |-> FALSE, sj |-> sj]

RECURSIVE first_segment_joined_from(_, _, _, _, _)
\* the body of the loop of get_first_segment_joined, first being what get_first_segment yielded
first_segment_joined_step(m, ps, paths, path_index, first) ==
  IF first.result THEN FoundJoined([segment |-> first.segment, paths |-> paths, path_index |-> path_index])
  ELSE first_segment_joined_from(m, ps, paths, path_index + 1, first.segment)

\* the loop of get_first_segment_joined
first_segment_joined_from(m, ps, paths, path_index, segment) ==
  IF PathAt(paths, path_index) = NULL THEN NotFoundJoined([segment |-> segment, paths |-> paths, path_index |-> path_index])
  ELSE first_segment_joined_step(m, ps, paths, path_index, get_first_segment(m, ps, PathAt(paths, path_index), segment))

get_first_segment_joined(m, ps, paths) == first_segment_joined_from(m, ps, paths, 0, NoSegment)

RECURSIVE next_path_with_segment(_, _, _)
\* the end of the body of the do-while of get_next_segment_joined
next_path_step(m, ps, sj, first) == IF first.result THEN FoundJoined([sj EXCEPT !.segment = first.segment]) ELSE next_path_with_segment(m, ps, [sj EXCEPT !.segment = first.segment])

\* the do-while of get_next_segment_joined
next_path_with_segment(m, ps, sj) ==
  IF PathAt(sj.paths, sj.path_index + 1) = NULL THEN NotFoundJoined([sj EXCEPT !.path_index = sj.path_index + 1])
  ELSE next_path_step(m, ps, [sj EXCEPT !.path_index = sj.path_index + 1], get_first_segment_without_root(m, ps, PathAt(sj.paths, sj.path_index + 1), PathAt(sj.paths, sj.path_index + 1), sj.segment))

\* get_next_segment_joined after it has asked the current path for its next segment
next_segment_joined_after(m, ps, sj, next) == IF next.result THEN FoundJoined([sj EXCEPT !.segment = next.segment]) ELSE next_path_with_segment(m, ps, sj)

get_next_segment_joined(m, ps, sj) == IF PathAt(sj.paths, sj.path_index) = NULL THEN NotFoundJoined(sj) ELSE next_segment_joined_after(m, ps, sj, get_next_segment(m, ps, sj.segment))

RECURSIVE previous_path_with_segment(_, _, _)
\* the end of the body of the do-while of get_previous_segment_joined
previous_path_step(m, ps, sj, last) == IF last.result THEN FoundJoined([sj EXCEPT !.segment = last.segment]) ELSE previous_path_with_segment(m, ps, [sj EXCEPT !.segment = last.segment])

\* the do-while of get_previous_segment_joined
previous_path_with_segment(m, ps, sj) ==
  IF sj.path_index = 0 THEN NotFoundJoined(sj)
  ELSE IF sj.path_index - 1 = 0 THEN previous_path_step(m, ps, [sj EXCEPT !.path_index = sj.path_index - 1], get_last_segment(m, ps, PathAt(sj.paths, sj.path_index - 1), sj.segment))
  ELSE previous_path_step(m, ps, [sj EXCEPT !.path_index = sj.path_index - 1], get_last_segment_without_root(m, ps, PathAt(sj.paths, sj.path_index - 1), sj.segment))

\* get_previous_segment_joined after it has asked the current path for its previous segment
previous_segment_joined_after(m, ps, sj, previous) == IF previous.result THEN FoundJoined([sj EXCEPT !.segment = previous.segment]) ELSE previous_path_with_segment(m, ps, sj)

get_previous_segment_joined(m, ps, sj) == IF PathAt(sj.paths, 0) = NULL THEN NotFoundJoined(sj) ELSE previous_segment_joined_after(m, ps, sj, get_previous_segment(m, ps, sj.segment))

(***************************************************************************)
(* Which segments normalisation removes.                                   *)
(***************************************************************************)
RECURSIVE back_will_be_removed_from(_, _, _, _)
\* the body of the loop of segment_back_will_be_removed, on a segment of the given type
back_will_be_removed_step(m, ps, sj, counter, type) ==
  IF type = CWK_NORMAL THEN (IF counter + 1 > 0 THEN TRUE ELSE back_will_be_removed_from(m, ps, sj, counter + 1))
  ELSE IF type = CWK_BACK THEN back_will_be_removed_from(m, ps, sj, counter - 1)
  ELSE back_will_be_removed_from(m, ps, sj, counter)

\* the test of the loop of segment_back_will_be_removed
back_will_be_removed_after(m, ps, previous, counter) == IF ~previous.result THEN FALSE ELSE back_will_be_removed_step(m, ps, previous.sj, counter, get_segment_type(m, previous.sj.segment))

\* the loop of segment_back_will_be_removed
back_will_be_removed_from(m, ps, sj, counter) == back_will_be_removed_after(m, ps, get_previous_segment_joined(m, ps, sj), counter)

segment_back_will_be_removed(m, ps, sj) == back_will_be_removed_from(m, ps, sj, 0)

RECURSIVE normal_will_be_removed_from(_, _, _, _)
\* the body of the loop of segment_normal_will_be_removed, on a segment of the given type
normal_will_be_removed_step(m, ps, sj, counter, type) ==
  IF type = CWK_NORMAL THEN normal_will_be_removed_from(m, ps, sj, counter + 1)
  ELSE IF type = CWK_BACK THEN (IF counter - 1 < 0 THEN TRUE ELSE normal_will_be_removed_from(m, ps, sj, counter - 1))
  ELSE normal_will_be_removed_from(m, ps, sj, counter)

\* the test of the loop of segment_normal_will_be_removed
normal_will_be_removed_after(m, ps, next, counter) == IF ~next.result THEN FALSE ELSE normal_will_be_removed_step(m, ps, next.sj, counter, get_segment_type(m, next.sj.segment))

\* the loop of segment_normal_will_be_removed
normal_will_be_removed_from(m, ps, sj, counter) == normal_will_be_removed_after(m, ps, get_next_segment_joined(m, ps, sj), counter)

segment_normal_will_be_removed(m, ps, sj) == normal_will_be_removed_from(m, ps, sj, 0)

\* a variant of will_be_removed_by_type that leaves out the test for an absolute path:
\* a back segment right after an absolute root stays
will_be_removed_ignoring_absolute(m, ps, sj, absolute, type) ==
  IF type = CWK_CURRENT THEN TRUE
  ELSE IF type = CWK_BACK THEN segment_back_will_be_removed(m, ps, sj)
  ELSE segment_normal_will_be_removed(m, ps, sj)

\* segment_will_be_removed on a segment of the given type
will_be_removed_by_type(m, ps, sj, absolute, type) ==
  IF type = CWK_CURRENT THEN TRUE
  ELSE IF type = CWK_BACK /\ absolute THEN TRUE
  ELSE IF type = CWK_BACK THEN segment_back_will_be_removed(m, ps, sj)
  ELSE segment_normal_will_be_removed(m, ps, sj)

segment_will_be_removed(m, ps, sj, absolute) == will_be_removed_by_type(m, ps, sj, absolute, get_segment_type(m, sj.segment))

RECURSIVE segment_joined_skip_invisible(_, _, _, _)
\* the body of the loop of segment_joined_skip_invisible
skip_invisible_step(m, ps, next, absolute) == IF ~next.result THEN NotFoundJoined(next.sj) ELSE segment_joined_skip_invisible(m, ps, next.sj, absolute)

segment_joined_skip_invisible(m, ps, sj, absolute) == IF segment_will_be_removed(m, ps, sj, absolute) THEN skip_invisible_step(m, ps, get_next_segment_joined(m, ps, sj), absolute) ELSE FoundJoined(sj)

(***************************************************************************)
(* Output into the caller's buffer.  An output function yields [mem, ret]: *)
(* the memory after the write and the length it returns.                   *)
(***************************************************************************)
amount_written(buffer_size, position, length) == IF buffer_size > position + length THEN length ELSE IF buffer_size > position THEN buffer_size - position ELSE 0

\* memmove(dest, str, amount)
memmove(m, dest, str, amount) == SubSeq(m, 1, dest - 1) \o SubSeq(m, str, str + amount - 1) \o SubSeq(m, dest + amount, Len(m))

\* a variant of output_sized that returns the amount it has written instead of length
output_sized_amount(m, buffer, buffer_size, position, str, length) ==
  IF amount_written(buffer_size, position, length) > 0
  THEN [mem |-> memmove(m, buffer + position, str, amount_written(buffer_size, position, length)), ret |-> amount_written(buffer_size, position, length)]
  ELSE [mem |-> m, ret |-> 0]

output_sized(m, buffer, buffer_size, position, str, length) ==
  IF amount_written(buffer_size, position, length) > 0
  THEN [mem |-> memmove(m, buffer + position, str, amount_written(buffer_size, position, length)), ret |-> length]
  ELSE [mem |-> m, ret |-> length]

output_current(m, buffer, buffer_size, position) == output_sized(m, buffer, buffer_size, position, LitDot, 1)

output_back(m, buffer, buffer_size, position) == output_sized(m, buffer, buffer_size, position, LitDotDot, 2)

output_separator(m, ps, buffer, buffer_size, position) == output_sized(m, buffer, buffer_size, position, separators(ps), 1)

output_dot(m, buffer, buffer_size, position) == output_sized(m, buffer, buffer_size, position, LitDot, 1)

output(m, buffer, buffer_size, position, str) == output_sized(m, buffer, buffer_size, position, str, strlen(m, str))

\* a variant of terminate_output that puts the NUL of a truncated result one cell too far
terminate_output_beyond(m, buffer, buffer_size, pos) == IF buffer_size > 0 THEN (IF pos >= buffer_size THEN [m EXCEPT ![buffer + buffer_size] = NUL] ELSE [m EXCEPT ![buffer + pos] = NUL]) ELSE m

terminate_output(m, buffer, buffer_size, pos) == IF buffer_size > 0 THEN (IF pos >= buffer_size THEN [m EXCEPT ![buffer + buffer_size - 1] = NUL] ELSE [m EXCEPT ![buffer + pos] = NUL]) ELSE m

(***************************************************************************)
(* The local variables of an operation that fills the buffer: o.mem is the *)
(* memory, o.pos the variable pos and o.has_output the flag that says      *)
(* whether a segment was written.  Such an operation yields [mem, ret].    *)
(***************************************************************************)
Local(m, pos, has_output) == [mem |-> m, pos |-> pos, has_output |-> has_output]

\* pos += out.ret, for the record out of an output function
Add(o, out) == [o EXCEPT !.mem = out.mem, !.pos = o.pos + out.ret]

\* pos += output_sized(buffer, buffer_size, pos, str, length)
add_output_sized(o, buffer, buffer_size, str, length) == Add(o, output_sized(o.mem, buffer, buffer_size, o.pos, str, length))

\* pos += output_separator(buffer, buffer_size, pos)
add_output_separator(o, ps, buffer, buffer_size) == Add(o, output_separator(o.mem, ps, buffer, buffer_size, o.pos))

\* pos += output_back(buffer, buffer_size, pos)
add_output_back(o, buffer, buffer_size) == Add(o, output_back(o.mem, buffer, buffer_size, o.pos))

\* pos += output_current(buffer, buffer_size, pos)
add_output_current(o, buffer, buffer_size) == Add(o, output_current(o.mem, buffer, buffer_size, o.pos))

\* pos += output_dot(buffer, buffer_size, pos)
add_output_dot(o, buffer, buffer_size) == Add(o, output_dot(o.mem, buffer, buffer_size, o.pos))

\* pos += output(buffer, buffer_size, pos, str)
add_output(o, buffer, buffer_size, str) == Add(o, output(o.mem, buffer, buffer_size, o.pos, str))

\* a call of an output function whose returned length is dropped
written(o, out) == [o EXCEPT !.mem = out.mem]

\* pos += size
add_size(o, size) == [o EXCEPT !.pos = o.pos + size]

\* has_output = true
with_output(o) == [o EXCEPT !.has_output = TRUE]

\* terminate_output(buffer, buffer_size, pos); return pos
terminated(o, buffer, buffer_size) == [mem |-> terminate_output(o.mem, buffer, buffer_size, o.pos), ret |-> o.pos]

(***************************************************************************)
(* join, join_multiple, normalize and get_absolute.                        *)
(***************************************************************************)
\* the body of the loop of join_and_normalize_multiple for a segment that stays
output_joined_segment(o, ps, sj, buffer, buffer_size) == add_output_sized(with_output(IF o.has_output THEN add_output_separator(o, ps, buffer, buffer_size) ELSE o), buffer, buffer_size, sj.segment.begin, sj.segment.size)

RECURSIVE join_segments(_, _, _, _, _, _)
\* the test of the do-while of join_and_normalize_multiple
join_segments_next(o, ps, next, absolute, buffer, buffer_size) == IF next.result THEN join_segments(o, ps, next.sj, absolute, buffer, buffer_size) ELSE o

\* the do-while of join_and_normalize_multiple after the body
join_segments_after(o, ps, sj, absolute, buffer, buffer_size) == join_segments_next(o, ps, get_next_segment_joined(o.mem, ps, sj), absolute, buffer, buffer_size)

\* the do-while of join_and_normalize_multiple, from the segment sj on
join_segments(o, ps, sj, absolute, buffer, buffer_size) ==
  IF segment_will_be_removed(o.mem, ps, sj, absolute) THEN join_segments_after(o, ps, sj, absolute, buffer, buffer_size)
  ELSE join_segments_after(output_joined_segment(o, ps, sj, buffer, buffer_size), ps, sj, absolute, buffer, buffer_size)

\* join_and_normalize_multiple after the loop
join_finish(o, buffer, buffer_size) == IF ~o.has_output /\ o.pos = 0 THEN terminated(add_output_current(o, buffer, buffer_size), buffer, buffer_size) ELSE terminated(o, buffer, buffer_size)

\* join_and_normalize_multiple after it has asked for the first segment
join_first(o, ps, first, absolute, buffer, buffer_size) == IF ~first.result THEN terminated(o, buffer, buffer_size) ELSE join_finish(join_segments(o, ps, first.sj, absolute, buffer, buffer_size), buffer, buffer_size)

\* join_and_normalize_multiple after it has written the root
join_rooted(o, ps, paths, buffer, buffer_size) == join_first(o, ps, get_first_segment_joined(o.mem, ps, paths), is_root_absolute(o.mem, ps, paths[1], o.pos), buffer, buffer_size)

\* join_and_normalize_multiple after get_root has set pos
join_from_root(m, ps, paths, buffer, buffer_size, pos) == join_rooted(Local(output_sized(m, buffer, buffer_size, 0, paths[1], pos).mem, pos, FALSE), ps, paths, buffer, buffer_size)

join_and_normalize_multiple(m, ps, paths, buffer, buffer_size) == join_from_root(m, ps, paths, buffer, buffer_size, get_root(m, ps, paths[1]))

normalize(m, ps, path, buffer, buffer_size) == join_and_normalize_multiple(m, ps, <<path, NULL>>, buffer, buffer_size)

join(m, ps, path_a, path_b, buffer, buffer_size) == join_and_normalize_multiple(m, ps, <<path_a, path_b, NULL>>, buffer, buffer_size)

join_multiple(m, ps, paths, buffer, buffer_size) == join_and_normalize_multiple(m, ps, paths, buffer, buffer_size)

\* the start of the paths array of get_absolute: a fake root when base is not absolute
get_absolute_root(m, ps, base) == IF is_absolute(m, ps, base) THEN <<>> ELSE IF ps = CWK_STYLE_WINDOWS THEN <<LitBackslash>> ELSE <<LitSlash>>

\* the paths array get_absolute hands to join_and_normalize_multiple
get_absolute_paths(m, ps, base, path) == IF is_absolute(m, ps, path) THEN get_absolute_root(m, ps, base) \o <<path, NULL>> ELSE get_absolute_root(m, ps, base) \o <<base, path, NULL>>

get_absolute(m, ps, base, path, buffer, buffer_size) == join_and_normalize_multiple(m, ps, get_absolute_paths(m, ps, base, path), buffer, buffer_size)

(***************************************************************************)
(* get_relative and get_intersection.                                      *)
(***************************************************************************)
\* what skip_segments_until_diverge leaves in bsj, osj, *base_available and *other_available
Diverged(base, other) == [bsj |-> base.sj, osj |-> other.sj, base_available |-> base.result, other_available |-> other.result]

RECURSIVE skip_segments_until_diverge(_, _, _, _, _)
\* the test of the do-while of skip_segments_until_diverge
diverge_next(m, ps, base, other, absolute) == IF base.result /\ other.result THEN skip_segments_until_diverge(m, ps, base.sj, other.sj, absolute) ELSE Diverged(base, other)

\* the body of the do-while of skip_segments_until_diverge after the invisible segments
diverge_visible(m, ps, base, other, absolute) ==
  IF ~base.result \/ ~other.result THEN Diverged(base, other)
  ELSE IF ~is_string_equal(m, ps, base.sj.segment.begin, other.sj.segment.begin, base.sj.segment.size) THEN Diverged(base, other)
  ELSE diverge_next(m, ps, get_next_segment_joined(m, ps, base.sj), get_next_segment_joined(m, ps, other.sj), absolute)

skip_segments_until_diverge(m, ps, bsj, osj, absolute) == diverge_visible(m, ps, segment_joined_skip_invisible(m, ps, bsj, absolute), segment_joined_skip_invisible(m, ps, osj, absolute), absolute)

RECURSIVE output_base_segments(_, _, _, _, _, _)
\* the test of the first do-while of get_relative
base_segments_next(o, ps, next, absolute, buffer, buffer_size) == IF next.result THEN output_base_segments(o, ps, next.sj, absolute, buffer, buffer_size) ELSE o

\* the end of the body of the first do-while of get_relative: a back segment and a separator
base_segments_output(o, ps, sj, absolute, buffer, buffer_size) == base_segments_next(o, ps, get_next_segment_joined(o.mem, ps, sj), absolute, buffer, buffer_size)

\* the body of the first do-while of get_relative after the invisible segments
base_segments_visible(o, ps, visible, absolute, buffer, buffer_size) == IF ~visible.result THEN o ELSE base_segments_output(add_output_separator(add_output_back(with_output(o), buffer, buffer_size), ps, buffer, buffer_size), ps, visible.sj, absolute, buffer, buffer_size)

\* the first do-while of get_relative: a back segment for every visible segment left in the base
output_base_segments(o, ps, bsj, absolute, buffer, buffer_size) == base_segments_visible(o, ps, segment_joined_skip_invisible(o.mem, ps, bsj, absolute), absolute, buffer, buffer_size)

RECURSIVE output_other_segments(_, _, _, _, _, _)
\* the test of the second do-while of get_relative
other_segments_next(o, ps, next, absolute, buffer, buffer_size) == IF next.result THEN output_other_segments(o, ps, next.sj, absolute, buffer, buffer_size) ELSE o

\* the end of the body of the second do-while of get_relative: the segment and a separator
other_segments_output(o, ps, sj, absolute, buffer, buffer_size) == other_segments_next(o, ps, get_next_segment_joined(o.mem, ps, sj), absolute, buffer, buffer_size)

\* the body of the second do-while of get_relative after the invisible segments
other_segments_visible(o, ps, visible, absolute, buffer, buffer_size) == IF ~visible.result THEN o ELSE other_segments_output(add_output_separator(add_output_sized(with_output(o), buffer, buffer_size, visible.sj.segment.begin, visible.sj.segment.size), ps, buffer, buffer_size), ps, visible.sj, absolute, buffer, buffer_size)

\* the second do-while of get_relative: every visible segment left in the target path
output_other_segments(o, ps, osj, absolute, buffer, buffer_size) == other_segments_visible(o, ps, segment_joined_skip_invisible(o.mem, ps, osj, absolute), absolute, buffer, buffer_size)

\* the end of get_relative: the trailing separator goes, or a current segment is written
relative_finish(o, buffer, buffer_size) == IF o.has_output THEN terminated([o EXCEPT !.pos = o.pos - 1], buffer, buffer_size) ELSE terminated(add_output_current(o, buffer, buffer_size), buffer, buffer_size)

\* get_relative after the first do-while
relative_others(o, ps, diverged, absolute, buffer, buffer_size) == relative_finish(IF diverged.other_available THEN output_other_segments(o, ps, diverged.osj, absolute, buffer, buffer_size) ELSE o, buffer, buffer_size)

\* get_relative after skip_segments_until_diverge
relative_diverged(m, ps, diverged, absolute, buffer, buffer_size) == relative_others(IF diverged.base_available THEN output_base_segments(Local(m, 0, FALSE), ps, diverged.bsj, absolute, buffer, buffer_size) ELSE Local(m, 0, FALSE), ps, diverged, absolute, buffer, buffer_size)

\* get_relative once the roots were found equal
relative_same_root(m, ps, base_directory, path, absolute, buffer, buffer_size) == relative_diverged(m, ps, skip_segments_until_diverge(m, ps, get_first_segment_joined(m, ps, <<base_directory, NULL>>).sj, get_first_segment_joined(m, ps, <<path, NULL>>).sj, absolute), absolute, buffer, buffer_size)

\* get_relative after it has taken the two roots
\* get_relative that compares the text of the roots and not their lengths
relative_roots_text(m, ps, base_directory, path, base_root_length, path_root_length, buffer, buffer_size) ==
  IF ~is_string_equal(m, ps, base_directory, path, base_root_length) THEN terminated(Local(m, 0, FALSE), buffer, buffer_size)
  ELSE relative_same_root(m, ps, base_directory, path, is_root_absolute(m, ps, base_directory, base_root_length), buffer, buffer_size)

relative_roots(m, ps, base_directory, path, base_root_length, path_root_length, buffer, buffer_size) ==
  IF base_root_length # path_root_length \/ ~is_string_equal(m, ps, base_directory, path, base_root_length) THEN terminated(Local(m, 0, FALSE), buffer, buffer_size)
  ELSE relative_same_root(m, ps, base_directory, path, is_root_absolute(m, ps, base_directory, base_root_length), buffer, buffer_size)

get_relative(m, ps, base_directory, path, buffer, buffer_size) == relative_roots(m, ps, base_directory, path, get_root(m, ps, base_directory), get_root(m, ps, path), buffer, buffer_size)

RECURSIVE intersection_end(_, _, _, _, _, _)
\* the test of the do-while of get_intersection, after end = base.segment.end
intersection_next(m, ps, base, other, absolute, end) == IF base.result /\ other.result THEN intersection_end(m, ps, base.sj, other.sj, absolute, end) ELSE end

\* the body of the do-while of get_intersection after the invisible segments
intersection_visible(m, ps, base, other, absolute, end) ==
  IF ~base.result \/ ~other.result THEN end
  ELSE IF ~is_string_equal(m, ps, base.sj.segment.begin, other.sj.segment.begin, base.sj.segment.size) THEN end
  ELSE intersection_next(m, ps, get_next_segment_joined(m, ps, base.sj), get_next_segment_joined(m, ps, other.sj), absolute, base.sj.segment.end)

\* the do-while of get_intersection; end is the end of the last segment found equal
intersection_end(m, ps, base, other, absolute, end) == intersection_visible(m, ps, segment_joined_skip_invisible(m, ps, base, absolute), segment_joined_skip_invisible(m, ps, other, absolute), absolute, end)

\* get_intersection after it has asked both paths for their first segment
intersection_first(m, ps, path_base, base_root_length, base, other) ==
  IF ~base.result \/ ~other.result THEN base_root_length
  ELSE intersection_end(m, ps, base.sj, other.sj, is_root_absolute(m, ps, path_base, base_root_length), path_base + base_root_length) - path_base

\* get_intersection after it has taken the root of the base
intersection_roots(m, ps, path_base, path_other, base_root_length) ==
  IF ~is_string_equal(m, ps, path_base, path_other, base_root_length) THEN 0
  ELSE intersection_first(m, ps, path_base, base_root_length, get_first_segment_joined(m, ps, <<path_base, NULL>>), get_first_segment_joined(m, ps, <<path_other, NULL>>))

get_intersection(m, ps, path_base, path_other) == intersection_roots(m, ps, path_base, path_other, get_root(m, ps, path_base))

(***************************************************************************)
(* change_root, change_basename and change_extension.                      *)
(***************************************************************************)
\* change_root with the lengths it has measured
change_root_sized(m, path, new_root, root_length, new_root_length, tail_length, buffer, buffer_size) ==
  terminated(Local(output_sized(output_sized(m, buffer, buffer_size, new_root_length, path + root_length, tail_length).mem, buffer, buffer_size, 0, new_root, new_root_length).mem, tail_length + new_root_length, FALSE), buffer, buffer_size)

\* change_root after get_root has set root_length
change_root_rooted(m, path, new_root, root_length, buffer, buffer_size) == change_root_sized(m, path, new_root, root_length, strlen(m, new_root), strlen(m, path) - root_length, buffer, buffer_size)

change_root(m, ps, path, new_root, buffer, buffer_size) == change_root_rooted(m, path, new_root, get_root(m, ps, path), buffer, buffer_size)

\* the length of value without the separators at its end
RECURSIVE trim_trailing_separators(_, _, _, _)
trim_trailing_separators(m, ps, value, value_size) == IF value_size > 0 /\ is_separator(m, ps, value + value_size - 1) THEN trim_trailing_separators(m, ps, value, value_size - 1) ELSE value_size

\* the length of the value that starts at value, its trailing separators trimmed
\* the length of the value that starts at value, its trailing separators kept
untrimmed_size(m, ps, value) == strlen(m, value)

trimmed_size(m, ps, value) == trim_trailing_separators(m, ps, value, strlen(m, value))

\* change_segment once the value is trimmed: the tail is written, then the value
change_segment_value(o, segment, value, value_size, tail_size, buffer, buffer_size) ==
  terminated(add_size(add_output_sized(written(o, output_sized(o.mem, buffer, buffer_size, o.pos + value_size, segment.end, tail_size)), buffer, buffer_size, value, value_size), tail_size), buffer, buffer_size)

\* change_segment after it has skipped the separators at the start of the value
change_segment_trimmed(o, ps, segment, value, buffer, buffer_size) == change_segment_value(o, segment, value, trimmed_size(o.mem, ps, value), strlen(o.mem, segment.end), buffer, buffer_size)

\* change_segment after it has written the head
change_segment_head(o, ps, segment, value, buffer, buffer_size) == change_segment_trimmed(o, ps, segment, skip_separators(o.mem, ps, value), buffer, buffer_size)

change_segment(m, ps, segment, value, buffer, buffer_size) == change_segment_head(add_output_sized(Local(m, 0, FALSE), buffer, buffer_size, segment.path, segment.begin - segment.path), ps, segment, value, buffer, buffer_size)

\* change_basename of a path without segments, after it has skipped the separators at the start of the name
change_basename_trimmed(o, ps, new_basename, buffer, buffer_size) == terminated(add_output_sized(o, buffer, buffer_size, new_basename, trimmed_size(o.mem, ps, new_basename)), buffer, buffer_size)

\* change_basename of a path without segments, after it has written the root
change_basename_root(o, ps, new_basename, buffer, buffer_size) == change_basename_trimmed(o, ps, skip_separators(o.mem, ps, new_basename), buffer, buffer_size)

\* change_basename after it has asked for the last segment
change_basename_last(m, ps, path, last, new_basename, buffer, buffer_size) ==
  IF ~last.result THEN change_basename_root(add_output_sized(Local(m, 0, FALSE), buffer, buffer_size, path, get_root(m, ps, path)), ps, new_basename, buffer, buffer_size)
  ELSE change_segment(m, ps, last.segment, new_basename, buffer, buffer_size)

change_basename(m, ps, path, new_basename, buffer, buffer_size) == change_basename_last(m, ps, path, get_last_segment(m, ps, path, NoSegment), new_basename, buffer, buffer_size)

\* the loop of change_extension that finds the last dot of the segment
RECURSIVE find_old_extension(_, _, _, _)
find_old_extension(m, c, end, old_extension) == IF c < end THEN find_old_extension(m, c + 1, end, IF m[c] = "." THEN c ELSE old_extension) ELSE old_extension

\* change_extension of a path without segments, after it has written the root
change_extension_root(o, new_extension, buffer, buffer_size) == terminated(add_output(IF o.mem[new_extension] # "." THEN add_output_dot(o, buffer, buffer_size) ELSE o, buffer, buffer_size, new_extension), buffer, buffer_size)

\* the end of change_extension: the dot and the new extension are written, pos += trail_size
change_extension_trail(o, new_extension, trail, buffer, buffer_size) == terminated(add_size(add_output(add_output_dot(written(o, trail), buffer, buffer_size), buffer, buffer_size, new_extension), trail.ret), buffer, buffer_size)

\* change_extension after it has skipped the dot of the new extension: the trail is written first
change_extension_value(o, segment, new_extension, buffer, buffer_size) == change_extension_trail(o, new_extension, output(o.mem, buffer, buffer_size, o.pos + strlen(o.mem, new_extension) + 1, segment.end), buffer, buffer_size)

\* change_extension after it has written the path up to the old extension
change_extension_head(o, segment, new_extension, buffer, buffer_size) == change_extension_value(o, segment, IF o.mem[new_extension] = "." THEN new_extension + 1 ELSE new_extension, buffer, buffer_size)

\* change_extension after it has asked for the last segment
change_extension_last(m, ps, path, last, new_extension, buffer, buffer_size) ==
  IF ~last.result THEN change_extension_root(add_output_sized(Local(m, 0, FALSE), buffer, buffer_size, path, get_root(m, ps, path)), new_extension, buffer, buffer_size)
  ELSE change_extension_head(add_output_sized(Local(m, 0, FALSE), buffer, buffer_size, last.segment.path, find_old_extension(m, last.segment.begin, last.segment.end, last.segment.end) - last.segment.path), last.segment, new_extension, buffer, buffer_size)

change_extension(m, ps, path, new_extension, buffer, buffer_size) == change_extension_last(m, ps, path, get_last_segment(m, ps, path, NoSegment), new_extension, buffer, buffer_size)

(***************************************************************************)
(* The state machine.  path_style is the style the cwk instance was        *)
(* constructed with; mem holds the caller's paths and buffer; call is the  *)
(* last call made on the instance and src the call whose result the caller *)
(* has kept in the slot PathC.                                             *)
(***************************************************************************)
\* the threads that use the instance, none of them inside a call
Threads == {1, 2}

Idle == [pc |-> "idle", path |-> NULL, c |-> NULL, length |-> 0, began |-> CWK_STYLE_UNIX, overlapped |-> FALSE]

NoThreads == [t \in Threads |-> Idle]

NoCall == [op |-> "none", args |-> <<>>, size |-> 0, ret |-> 0]

NoSource == [op |-> "none", args |-> <<>>]

\* the caller hands over a buffer it has not initialised
Fresh(m) == SubSeq(m, 1, Buffer - 1) \o [i \in 1..BufSize |-> JUNK]

Returned(op, args, size, r) ==
  /\ mem' = r.mem
  /\ call' = [op |-> op, args |-> args, size |-> size, ret |-> r.ret]
  /\ UNCHANGED <<path_style, src, seg, joined, running>>

Normalize(path, size) == Returned("normalize", <<path>>, size, normalize(Fresh(mem), path_style, path, Buffer, size))

Join(path_a, path_b, size) == Returned("join", <<path_a, path_b>>, size, join(Fresh(mem), path_style, path_a, path_b, Buffer, size))

JoinMultiple(paths, size) == Returned("join_multiple", paths, size, join_multiple(Fresh(mem), path_style, Append(paths, NULL), Buffer, size))

GetAbsolute(base, path, size) == Returned("get_absolute", <<base, path>>, size, get_absolute(Fresh(mem), path_style, base, path, Buffer, size))

GetRelative(base, path, size) == Returned("get_relative", <<base, path>>, size, get_relative(Fresh(mem), path_style, base, path, Buffer, size))

ChangeRoot(path, new_root, size) == Returned("change_root", <<path, new_root>>, size, change_root(Fresh(mem), path_style, path, new_root, Buffer, size))

ChangeBasename(path, new_basename, size) == Returned("change_basename", <<path, new_basename>>, size, change_basename(Fresh(mem), path_style, path, new_basename, Buffer, size))

ChangeExtension(path, new_extension, size) == Returned("change_extension", <<path, new_extension>>, size, change_extension(Fresh(mem), path_style, path, new_extension, Buffer, size))

GetIntersection(path_base, path_other) ==
  /\ call' = [op |-> "get_intersection", args |-> <<path_base, path_other>>, size |-> 0, ret |-> get_intersection(mem, path_style, path_base, path_other)]
  /\ UNCHANGED <<path_style, mem, src, seg, joined, running>>

\* the caller keeps the untruncated result of the last call as the path in PathC
Keep ==
  /\ call.op \in {"normalize", "get_relative"}
  /\ PathC \notin {call.args[i] : i \in 1..Len(call.args)}
  /\ call.ret < call.size
  /\ mem' = SubSeq(mem, 1, PathC - 1) \o Pad(CStr(mem, Buffer), BufSize) \o SubSeq(mem, Buffer, Len(mem))
  /\ src' = [op |-> call.op, args |-> call.args]
  /\ UNCHANGED <<path_style, call, seg, joined, running>>

\* one path: normalize, and normalize of a kept result
InitNormalize ==
  /\ path_style \in Styles
  /\ \E a \in StringsUpTo(MaxLen, Alphabet) : mem = MakeMem(a, <<>>, <<>>)
  /\ call = NoCall
  /\ src = NoSource
  /\ seg = NoSegment
  /\ joined = NoJoined
  /\ running = NoThreads

NextNormalize ==
  \/ \E path \in {PathA, PathC} : Normalize(path, BufSize)
  \/ Keep

SpecNormalize == InitNormalize /\ [][NextNormalize]_vars

\* the instance has made no call yet
First == call.op = NoCall.op

\* the caller has just kept the result of get_relative
Kept == src.op = "get_relative" /\ call.op = "get_relative"

\* two paths: get_relative, get_absolute and get_intersection, and get_absolute of a kept result of get_relative
Init ==
  /\ path_style \in Styles
  /\ \E a \in StringsUpTo(MaxPairLen, PairAlphabet), b \in StringsUpTo(MaxPairLen, PairAlphabet) : mem = MakeMem(a, b, <<>>)
  /\ call = NoCall
  /\ src = NoSource
  /\ seg = NoSegment
  /\ joined = NoJoined
  /\ running = NoThreads

Next ==
  \/ First /\ GetRelative(PathA, PathB, BufSize)
  \/ First /\ GetAbsolute(PathA, PathB, BufSize)
  \/ First /\ GetIntersection(PathA, PathB)
  \/ Keep
  \/ Kept /\ GetAbsolute(PathA, PathC, BufSize)

Spec == Init /\ [][Next]_vars

\* two paths and a buffer of every size up to MaxSize: one call of a function that fills the buffer
InitBuffer ==
  /\ path_style \in Styles
  /\ \E a \in StringsUpTo(MaxBufLen, BufAlphabet), b \in StringsUpTo(MaxBufLen, BufAlphabet) : mem = MakeMem(a, b, <<>>)
  /\ call = NoCall
  /\ src = NoSource
  /\ seg = NoSegment
  /\ joined = NoJoined
  /\ running = NoThreads

NextBuffer ==
  \E size \in 0..MaxSize :
    \/ First /\ Normalize(PathA, size)
    \/ First /\ Join(PathA, PathB, size)
    \/ First /\ JoinMultiple(<<PathA, PathB, PathA>>, size)
    \/ First /\ GetAbsolute(PathA, PathB, size)
    \/ First /\ GetRelative(PathA, PathB, size)
    \/ First /\ ChangeRoot(PathA, PathB, size)
    \/ First /\ ChangeBasename(PathA, PathB, size)
    \/ First /\ ChangeExtension(PathA, PathB, size)

SpecBuffer == InitBuffer /\ [][NextBuffer]_vars

\* a call whose buffer is the memory of its own path, the path in PathC
ReturnedInPlace(op, args, r) ==
  /\ mem' = r.mem
  /\ call' = [op |-> op, args |-> args, size |-> BufSize, ret |-> r.ret]
  /\ UNCHANGED <<path_style, src, seg, joined, running>>

NormalizeInPlace == ReturnedInPlace("normalize", <<PathC>>, normalize(mem, path_style, PathC, PathC, BufSize))

ChangeBasenameInPlace(new_basename) == ReturnedInPlace("change_basename", <<PathC, new_basename>>, change_basename(mem, path_style, PathC, new_basename, PathC, BufSize))

ChangeExtensionInPlace(new_extension) == ReturnedInPlace("change_extension", <<PathC, new_extension>>, change_extension(mem, path_style, PathC, new_extension, PathC, BufSize))

\* a path in PathC with a copy of it in PathA, and a new basename or extension in PathB: one call in place
InitInPlace ==
  /\ path_style \in Styles
  /\ \E a \in StringsUpTo(MaxInPlaceLen, InPlaceAlphabet), b \in StringsUpTo(MaxValueLen, BufAlphabet) : mem = MakeMem(a, b, a)
  /\ call = NoCall
  /\ src = NoSource
  /\ seg = NoSegment
  /\ joined = NoJoined
  /\ running = NoThreads

NextInPlace ==
  \/ First /\ NormalizeInPlace
  \/ First /\ ChangeBasenameInPlace(PathB)
  \/ First /\ ChangeExtensionInPlace(PathB)

SpecInPlace == InitInPlace /\ [][NextInPlace]_vars

\* the functions that tell the root of the path in PathC, and whether it is absolute
Answered(op, path, ret) ==
  /\ call' = [op |-> op, args |-> <<path>>, size |-> 0, ret |-> ret]
  /\ UNCHANGED <<path_style, mem, src, seg, joined, running>>

GetRoot(path) == Answered("get_root", path, get_root(mem, path_style, path))

IsAbsolute(path) == Answered("is_absolute", path, is_absolute(mem, path_style, path))

IsRelative(path) == Answered("is_relative", path, is_relative(mem, path_style, path))

InitRoot ==
  /\ path_style \in Styles
  /\ \E prefix \in RootPrefixes, a \in StringsUpTo(MaxRootLen, RootAlphabet) : mem = MakeMem(<<>>, <<>>, prefix \o a)
  /\ call = NoCall
  /\ src = NoSource
  /\ seg = NoSegment
  /\ joined = NoJoined
  /\ running = NoThreads

NextRoot ==
  \/ First /\ GetRoot(PathC)
  \/ First /\ IsAbsolute(PathC)
  \/ First /\ IsRelative(PathC)

SpecRoot == InitRoot /\ [][NextRoot]_vars

\* two paths with roots of every kind, and get_relative
InitRelative ==
  /\ path_style \in Styles
  /\ \E a \in StringsUpTo(MaxPairLen, RelativeAlphabet), b \in StringsUpTo(MaxPairLen, RelativeAlphabet) : mem = MakeMem(a, b, <<>>)
  /\ call = NoCall
  /\ src = NoSource
  /\ seg = NoSegment
  /\ joined = NoJoined
  /\ running = NoThreads

NextRelative == First /\ GetRelative(PathA, PathB, BufSize)

SpecRelative == InitRelative /\ [][NextRelative]_vars

\* a path and a new basename, and change_basename
InitBasename ==
  /\ path_style \in Styles
  /\ \E a \in StringsUpTo(MaxBasenameLen, BasenameAlphabet), b \in StringsUpTo(MaxNameLen, NameAlphabet) : mem = MakeMem(a, b, <<>>)
  /\ call = NoCall
  /\ src = NoSource
  /\ seg = NoSegment
  /\ joined = NoJoined
  /\ running = NoThreads

NextBasename == First /\ ChangeBasename(PathA, PathB, BufSize)

SpecBasename == InitBasename /\ [][NextBasename]_vars

\* the functions that fill or move the cwk_segment of the caller
Visited(op, args, r) ==
  /\ seg' = r.segment
  /\ call' = [op |-> op, args |-> args, size |-> 0, ret |-> r.result]
  /\ UNCHANGED <<path_style, mem, src, joined, running>>

GetFirstSegment(path) == Visited("get_first_segment", <<path>>, get_first_segment(mem, path_style, path, seg))

GetLastSegment(path) == Visited("get_last_segment", <<path>>, get_last_segment(mem, path_style, path, seg))

GetNextSegment == Visited("get_next_segment", <<seg>>, get_next_segment(mem, path_style, seg))

GetPreviousSegment == Visited("get_previous_segment", <<seg>>, get_previous_segment(mem, path_style, seg))

\* the segment of the caller has been filled by get_first_segment or get_last_segment
Filled == seg.path # NULL

\* one path and the segment of the caller, moved forward and backward
InitSegment ==
  /\ path_style \in Styles
  /\ \E a \in StringsUpTo(MaxSegmentLen, SegmentAlphabet) : mem = MakeMem(a, <<>>, <<>>)
  /\ call = NoCall
  /\ src = NoSource
  /\ seg = NoSegment
  /\ joined = NoJoined
  /\ running = NoThreads

NextSegment ==
  \/ ~Filled /\ GetFirstSegment(PathA)
  \/ ~Filled /\ GetLastSegment(PathA)
  \/ Filled /\ GetNextSegment
  \/ Filled /\ GetPreviousSegment

SpecSegment == InitSegment /\ [][NextSegment]_vars

GuessStyle(path) == Answered("guess_style", path, guess_style(mem, path_style, path))

\* one path, and guess_style on an instance configured with either style
InitGuess ==
  /\ path_style \in Styles
  /\ \E a \in StringsUpTo(MaxGuessLen, Alphabet) : mem = MakeMem(a, <<>>, <<>>)
  /\ call = NoCall
  /\ src = NoSource
  /\ seg = NoSegment
  /\ joined = NoJoined
  /\ running = NoThreads

NextGuess == First /\ GuessStyle(PathA)

SpecGuess == InitGuess /\ [][NextGuess]_vars

\* the functions that fill or move the cwk_segment_joined of the caller
WalkedJoined(op, args, r) ==
  /\ joined' = r.sj
  /\ call' = [op |-> op, args |-> args, size |-> 0, ret |-> r.result]
  /\ UNCHANGED <<path_style, mem, src, seg, running>>

GetFirstSegmentJoined(paths) == WalkedJoined("get_first_segment_joined", <<paths>>, get_first_segment_joined(mem, path_style, paths))

GetNextSegmentJoined == WalkedJoined("get_next_segment_joined", <<>>, get_next_segment_joined(mem, path_style, joined))

GetPreviousSegmentJoined == WalkedJoined("get_previous_segment_joined", <<>>, get_previous_segment_joined(mem, path_style, joined))

\* segment_will_be_removed reads the cwk_segment_joined of the caller and works on copies of it
SegmentWillBeRemoved(absolute) ==
  /\ call' = [op |-> "segment_will_be_removed", args |-> <<absolute>>, size |-> 0, ret |-> segment_will_be_removed(mem, path_style, joined, absolute)]
  /\ UNCHANGED <<path_style, mem, src, seg, joined, running>>

\* the lists of fragments handed to get_first_segment_joined, each closed by NULL
JoinedLists == {<<PathA, PathB, NULL>>, <<PathA, PathC, PathB, NULL>>}

\* the cwk_segment_joined of the caller holds a segment: the last walk on it found one
Positioned == joined.paths # <<>> /\ PathAt(joined.paths, joined.path_index) # NULL /\ joined.segment.size > 0

\* the fragments a, b and a copy of b, and the cwk_segment_joined of the caller, moved forward
\* and backward
InitJoined ==
  /\ path_style \in Styles
  /\ \E a \in StringsUpTo(MaxJoinedLen, JoinedAlphabet), b \in StringsUpTo(MaxJoinedLen, JoinedAlphabet) : mem = MakeMem(a, b, b)
  /\ call = NoCall
  /\ src = NoSource
  /\ seg = NoSegment
  /\ joined = NoJoined
  /\ running = NoThreads

NextJoined ==
  \/ First /\ \E paths \in JoinedLists : GetFirstSegmentJoined(paths)
  \/ Positioned /\ GetNextSegmentJoined
  \/ Positioned /\ GetPreviousSegmentJoined
  \/ Positioned /\ \E absolute \in BOOLEAN : SegmentWillBeRemoved(absolute)

SpecJoined == InitJoined /\ [][NextJoined]_vars

\* what may stand before the middle fragment: nothing, or a drive
ElisionPrefixes == {<<>>, <<"c", ":">>}

\* fragments of normal, current and back segments: a, then b with or without a drive before it,
\* then b
InitElision ==
  /\ path_style \in Styles
  /\ \E a \in StringsUpTo(MaxElisionLen, ElisionAlphabet), b \in StringsUpTo(MaxElisionLen, ElisionAlphabet), prefix \in ElisionPrefixes : mem = MakeMem(a, b, prefix \o b)
  /\ call = NoCall
  /\ src = NoSource
  /\ seg = NoSegment
  /\ joined = NoJoined
  /\ running = NoThreads

SpecElision == InitElision /\ [][NextJoined]_vars

(***************************************************************************)
(* get_root on an instance that several threads share.  A call is a record *)
(* r of its position pc in the code, its path, its cursor c and *length;   *)
(* began (the style when the call began) and overlapped (set_style ran     *)
(* since) keep its history.  A step reads path_style at most once, in the  *)
(* dispatch of get_root or in one call of is_separator, and goes on to the *)
(* next place that reads it.                                               *)
(***************************************************************************)
\* the call returns with *length set
get_root_return(r, length) == [r EXCEPT !.pc = "returned", !.length = length]

\* the test of the loop of find_next_stop, which is left for the place next
find_next_stop_step(m, ps, r, next) ==
  IF m[r.c] # NUL /\ ~is_separator(m, ps, r.c) THEN [r EXCEPT !.c = r.c + 1]
  ELSE [r EXCEPT !.pc = next]

\* get_root_windows from one separator test to the next
get_root_windows_step(m, ps, r) ==
  CASE r.pc = "is_network" ->
         IF is_separator(m, ps, r.c) THEN [r EXCEPT !.pc = "is_single", !.c = r.c + 1]
         ELSE IF m[r.c + 1] = ":" THEN [r EXCEPT !.pc = "is_drive_separator", !.c = r.c + 2, !.length = 2]
         ELSE get_root_return(r, r.length)
    [] r.pc = "is_single" ->
         IF ~is_separator(m, ps, r.c) THEN get_root_return(r, r.length + 1)
         ELSE IF m[r.c + 1] \in {"?", "."} THEN [r EXCEPT !.pc = "is_device", !.c = r.c + 2]
         ELSE [r EXCEPT !.pc = "server", !.c = r.c + 1]
    [] r.pc = "is_device" ->
         IF is_separator(m, ps, r.c) THEN get_root_return(r, 4)
         ELSE [r EXCEPT !.pc = "server"]
    [] r.pc = "server" -> find_next_stop_step(m, ps, r, "separators")
    [] r.pc = "separators" ->
         IF is_separator(m, ps, r.c) THEN [r EXCEPT !.c = r.c + 1]
         ELSE [r EXCEPT !.pc = "share"]
    [] r.pc = "share" -> find_next_stop_step(m, ps, r, "last")
    [] r.pc = "last" ->
         IF is_separator(m, ps, r.c) THEN get_root_return(r, r.c + 1 - r.path)
         ELSE get_root_return(r, r.c - r.path)
    [] r.pc = "is_drive_separator" ->
         IF is_separator(m, ps, r.c) THEN get_root_return(r, 3)
         ELSE get_root_return(r, r.length)

\* a variant of get_root_unix_step that takes every first character for a root
get_root_unix_step_root(m, ps, r) == get_root_return(r, 1)

get_root_unix_step(m, ps, r) == IF is_separator(m, ps, r.path) THEN get_root_return(r, 1) ELSE get_root_return(r, 0)

\* get_root chooses the implementation, and get_root_windows runs up to its first separator test
get_root_step(m, ps, r) ==
  IF ps # CWK_STYLE_WINDOWS THEN [r EXCEPT !.pc = "get_root_unix"]
  ELSE IF m[r.path] = NUL THEN get_root_return([r EXCEPT !.c = r.path], 0)
  ELSE [r EXCEPT !.pc = "is_network", !.c = r.path, !.length = 0]

\* the next step of the call r
step(m, ps, r) ==
  IF r.pc = "get_root" THEN get_root_step(m, ps, r)
  ELSE IF r.pc = "get_root_unix" THEN get_root_unix_step(m, ps, r)
  ELSE get_root_windows_step(m, ps, r)

\* the thread t calls get_root
Call(t, path) ==
  /\ running[t].pc = "idle"
  /\ running' = [running EXCEPT ![t] = [pc |-> "get_root", path |-> path, c |-> NULL, length |-> 0, began |-> path_style, overlapped |-> FALSE]]
  /\ UNCHANGED <<path_style, mem, call, src, seg, joined>>

\* the call of the thread t runs on to the next place that reads path_style
Step(t) ==
  /\ running[t].pc \notin {"idle", "returned"}
  /\ running' = [running EXCEPT ![t] = step(mem, path_style, running[t])]
  /\ UNCHANGED <<path_style, mem, call, src, seg, joined>>

\* a thread calls set_style, while the calls of other threads are where they are
SetStyle(style) ==
  /\ path_style' = style
  /\ running' = [t \in Threads |-> IF running[t].pc \in {"idle", "returned"} THEN running[t] ELSE [running[t] EXCEPT !.overlapped = TRUE]]
  /\ UNCHANGED <<mem, call, src, seg, joined>>

\* one path, and threads that call get_root on it and set_style
InitRace ==
  /\ path_style \in Styles
  /\ \E a \in StringsUpTo(MaxRaceLen, RaceAlphabet) : mem = MakeMem(a, <<>>, <<>>)
  /\ call = NoCall
  /\ src = NoSource
  /\ seg = NoSegment
  /\ joined = NoJoined
  /\ running = NoThreads

NextRace ==
  \/ \E t \in Threads : Call(t, PathA)
  \/ \E t \in Threads : Step(t)
  \/ \E style \in Styles : SetStyle(style)

SpecRace == InitRace /\ [][NextRace]_vars

(***************************************************************************)
(* What the properties speak of.                                           *)
(***************************************************************************)
\* the string the last call left in the buffer
Result == CStr(mem, Buffer)

\* the memory the last call found: the caller's paths and a buffer never written
Before == Fresh(mem)

\* the string normalize writes for the path at p into a buffer that is large enough
Normalized(p) == CStr(normalize(Before, path_style, p, Buffer, BufSize).mem, Buffer)

\* a character under the case rule of the style
Fold(c) == IF path_style = CWK_STYLE_WINDOWS THEN tolower(c) ELSE c

\* the n characters at p under the case rule of the style
Text(p, n) == [i \in 1..n |-> Fold(mem[p + i - 1])]

\* the roots of the paths at a and b match: same length, same text under the case rule
RootsMatch(a, b) ==
  /\ get_root(mem, path_style, a) = get_root(mem, path_style, b)
  /\ Text(a, get_root(mem, path_style, a)) = Text(b, get_root(mem, path_style, b))

\* the segments from next on that normalisation keeps
RECURSIVE SurvivorsFrom(_, _)
SurvivorsFrom(next, absolute) ==
  IF ~next.result THEN <<>>
  ELSE (IF segment_will_be_removed(mem, path_style, next.sj, absolute) THEN <<>> ELSE <<next.sj.segment>>)
       \o SurvivorsFrom(get_next_segment_joined(mem, path_style, next.sj), absolute)

\* the segments of the path at p that survive elision
Survivors(p) == SurvivorsFrom(get_first_segment_joined(mem, path_style, <<p, NULL>>), is_absolute(mem, path_style, p))

\* two segments are the same: equal length and equal text under the case rule
SameSegment(s, t) == s.size = t.size /\ Text(s.begin, s.size) = Text(t.begin, t.size)

\* the paths at a and b have the same sequence of surviving segments
SameSurvivors(a, b) ==
  /\ Len(Survivors(a)) = Len(Survivors(b))
  /\ \A i \in 1..Len(Survivors(a)) : SameSegment(Survivors(a)[i], Survivors(b)[i])

\* the length of the longest common prefix of two sequences of segments
RECURSIVE CommonPrefix(_, _, _)
CommonPrefix(sa, sb, k) == IF k < Len(sa) /\ k < Len(sb) /\ SameSegment(sa[k + 1], sb[k + 1]) THEN CommonPrefix(sa, sb, k + 1) ELSE k

\* the offset in the path at a of the end of the last segment a and b have in common
CommonEnd(a, sa, k) == IF k = 0 THEN get_root(mem, path_style, a) ELSE sa[k].end - a

\* the pieces between the occurrences of the character sep in s; the empty string has none
RECURSIVE Split(_, _, _)
Split(s, sep, piece) ==
  IF s = <<>> THEN <<piece>>
  ELSE IF Head(s) = sep THEN <<piece>> \o Split(Tail(s), sep, <<>>)
  ELSE Split(Tail(s), sep, Append(piece, Head(s)))

Pieces(s, sep) == IF s = <<>> THEN <<>> ELSE Split(s, sep, <<>>)

\* the characters the style takes for separators
SeparatorChars == {mem[separators(path_style) + i] : i \in 0..(strlen(mem, separators(path_style)) - 1)}

\* the shape of a normalised path: pieces are what follows the root, cut at the canonical separator
NormalShape(pieces, absolute) ==
  /\ \A i \in 1..Len(pieces) :
       /\ pieces[i] # <<>>
       /\ pieces[i] # <<".">>
       /\ \A j \in 1..Len(pieces[i]) : pieces[i][j] \notin SeparatorChars
       /\ pieces[i] = <<".", ".">> => ~absolute /\ \A j \in 1..(i - 1) : pieces[j] = <<".", ".">>

\* the path at p that normalize has written as out is of the normalised shape
Normal(p, out) ==
  \/ /\ Len(out) >= get_root(mem, path_style, p)
     /\ SubSeq(out, 1, get_root(mem, path_style, p)) = SubSeq(CStr(mem, p), 1, get_root(mem, path_style, p))
     /\ NormalShape(Pieces(SubSeq(out, get_root(mem, path_style, p) + 1, Len(out)), mem[separators(path_style)]), is_absolute(mem, path_style, p))
  \/ /\ out = <<".">>
     /\ get_root(mem, path_style, p) = 0
     /\ Survivors(p) = <<>>

\* the last call with a buffer that is large enough
Untruncated ==
  CASE call.op = "normalize" -> normalize(Before, path_style, call.args[1], Buffer, BufSize)
    [] call.op = "join" -> join(Before, path_style, call.args[1], call.args[2], Buffer, BufSize)
    [] call.op = "join_multiple" -> join_multiple(Before, path_style, Append(call.args, NULL), Buffer, BufSize)
    [] call.op = "get_absolute" -> get_absolute(Before, path_style, call.args[1], call.args[2], Buffer, BufSize)
    [] call.op = "get_relative" -> get_relative(Before, path_style, call.args[1], call.args[2], Buffer, BufSize)
    [] call.op = "change_root" -> change_root(Before, path_style, call.args[1], call.args[2], Buffer, BufSize)
    [] call.op = "change_basename" -> change_basename(Before, path_style, call.args[1], call.args[2], Buffer, BufSize)
    [] call.op = "change_extension" -> change_extension(Before, path_style, call.args[1], call.args[2], Buffer, BufSize)

BufferOps == {"normalize", "join", "join_multiple", "get_absolute", "get_relative", "change_root", "change_basename", "change_extension"}

\* the buffer after a call with buffer_size c whose untruncated result is full
Truncated(full, c) ==
  /\ \A i \in 1..Min(Len(full), c - 1) : mem[Buffer + i - 1] = full[i]
  /\ mem[Buffer + Min(Len(full), c - 1)] = NUL
  /\ \A i \in c..(BufSize - 1) : mem[Buffer + i] = JUNK

(***************************************************************************)
(* The properties.                                                         *)
(***************************************************************************)
\* C1: normalize of the untruncated output of normalize(p) writes that same string again,
\* for every path p and both styles.
C1_NormalizeIdempotent ==
  (call.op = "normalize" /\ call.args = <<PathC>> /\ src.op = "normalize") => Result = CStr(mem, PathC)

C3_RelativeRoundTrip ==
  (/\ call.op = "get_absolute"
   /\ call.args = <<PathA, PathC>>
   /\ src = [op |-> "get_relative", args |-> <<PathA, PathB>>]
   /\ is_absolute(mem, path_style, PathA)
   /\ RootsMatch(PathA, PathB)) => Result = Normalized(PathB)

\* C4: get_relative(base, p) writes '.' if and only if the roots of base and p match and
\* both have the same sequence of surviving segments, segments being the same only when
\* they have equal length and equal text under the case rule of the style.
C4_RelativeDotIffSame ==
  call.op = "get_relative" => ((Result = <<".">>) <=> (RootsMatch(call.args[1], call.args[2]) /\ SameSurvivors(call.args[1], call.args[2])))

\* C5: for a and b with matching roots, get_intersection(a, b) is the offset in a of the end
\* of the last segment of the longest common prefix of their surviving segments, and the
\* length of the root when that prefix is empty.
C5_IntersectionCommonPrefix ==
  (call.op = "get_intersection" /\ RootsMatch(call.args[1], call.args[2]))
    => call.ret = CommonEnd(call.args[1], Survivors(call.args[1]), CommonPrefix(Survivors(call.args[1]), Survivors(call.args[2]), 0))

\* C6: get_intersection(a, b) is 0 whenever the roots of a and b differ in length or in
\* text under the case rule of the style.
C6_IntersectionRootsDiffer ==
  (call.op = "get_intersection" /\ ~RootsMatch(call.args[1], call.args[2])) => call.ret = 0

\* C7: for every base and every absolute path p, get_absolute(base, p) writes exactly the
\* string normalize(p).
C7_AbsoluteOverridesBase ==
  (call.op = "get_absolute" /\ is_absolute(mem, path_style, call.args[2])) => Result = Normalized(call.args[2])

\* C8: the untruncated string get_absolute writes is an absolute path.
C8_AbsoluteIsAbsolute ==
  call.op = "get_absolute" => is_absolute(mem, path_style, Buffer)

\* C9: every function that fills a buffer disjoint from its inputs returns the length of the
\* untruncated result, whatever the buffer_size, and with buffer_size 0 writes no byte.
C9_ReturnedLength ==
  call.op \in BufferOps =>
    /\ call.ret = Untruncated.ret
    /\ call.ret = Len(CStr(Untruncated.mem, Buffer))
    /\ call.size = 0 => \A i \in 0..(BufSize - 1) : mem[Buffer + i] = JUNK

\* C9 happens: a call with buffer_size 0 of a function whose result is not empty
C9_Witness ==
  /\ call.op = "change_extension"
  /\ call.size = 0
  /\ call.ret > 0

\* C10: after a call with a disjoint buffer of size c > 0 whose untruncated result has the
\* length L, the buffer holds the first min(L, c-1) characters of that result and a NUL at
\* index min(L, c-1), and no index >= c was written.
C10_Truncation ==
  (call.op \in BufferOps /\ call.size > 0) => Truncated(CStr(Untruncated.mem, Buffer), call.size)

\* C10 happens: a result that does not fit the buffer
C10_Witness ==
  /\ call.op = "get_relative"
  /\ call.size > 1
  /\ call.ret >= call.size

\* the call made in place on PathC, made instead on the copy in PathA with the disjoint buffer
Disjoint ==
  CASE call.op = "normalize" -> normalize(Before, path_style, PathA, Buffer, BufSize)
    [] call.op = "change_basename" -> change_basename(Before, path_style, PathA, call.args[2], Buffer, BufSize)
    [] call.op = "change_extension" -> change_extension(Before, path_style, PathA, call.args[2], Buffer, BufSize)

\* C11: normalize, change_basename and change_extension with the buffer equal to the memory
\* of the path (and large enough) leave in it exactly the string they write into a disjoint
\* buffer, and return the same length.
C11_InPlaceSameAsDisjoint ==
  call.op \in {"normalize", "change_basename", "change_extension"} =>
    /\ CStr(mem, PathC) = CStr(Disjoint.mem, Buffer)
    /\ call.ret = Disjoint.ret

\* the path the last question was asked about, and its root
Asked == CStr(mem, call.args[1])

AskedRoot == get_root(mem, path_style, call.args[1])

RootOps == {"get_root", "is_absolute", "is_relative"}

\* the root of the path asked about is not empty and its last character is a separator
RootEndsWithSeparator == AskedRoot > 0 /\ Asked[AskedRoot] \in SeparatorChars

\* C12: is_absolute is true exactly when the root is not empty and its last character is a
\* separator of the style, and is_relative is the negation of is_absolute.
C12_AbsoluteIffRootEndsWithSeparator ==
  /\ call.op = "is_absolute" => (call.ret <=> RootEndsWithSeparator)
  /\ call.op = "is_relative" => (call.ret <=> ~RootEndsWithSeparator)

\* C12 happens: a path with a root that is not empty, and yet relative
C12_Witness ==
  /\ call.op = "is_relative"
  /\ call.ret
  /\ AskedRoot = 2

\* the last question was asked under the Windows style about a path that does not begin with a
\* separator and whose second character is a colon
DriveLike ==
  /\ call.op \in RootOps
  /\ path_style = CWK_STYLE_WINDOWS
  /\ Len(Asked) >= 2
  /\ Asked[1] \notin SeparatorChars
  /\ Asked[2] = ":"

\* the answer of the last question when the root has the given length and absoluteness
Answer(length, absolute) ==
  CASE call.op = "get_root" -> call.ret = length
    [] call.op = "is_absolute" -> call.ret = absolute
    [] call.op = "is_relative" -> call.ret = ~absolute

\* C13: under the Windows style a path that does not begin with a separator and has a colon as
\* its second character has a root of 2 and is relative, unless its third character is a
\* separator: then the root is 3 and the path is absolute.
C13_DriveRoot ==
  DriveLike =>
    IF Len(Asked) >= 3 /\ Asked[3] \in SeparatorChars THEN Answer(3, TRUE) ELSE Answer(2, FALSE)

\* C13 happens: a drive letter, a colon and a separator
C13_Witness ==
  /\ DriveLike
  /\ call.op = "get_root"
  /\ call.ret = 3

\* the first index of s from i on that holds a separator, or the index after its end
RECURSIVE NameEnd(_, _)
NameEnd(s, i) == IF i > Len(s) \/ s[i] \in SeparatorChars THEN i ELSE NameEnd(s, i + 1)

\* the first index of s from i on that holds no separator, or the index after its end
RECURSIVE SeparatorsEnd(_, _)
SeparatorsEnd(s, i) == IF i <= Len(s) /\ s[i] \in SeparatorChars THEN SeparatorsEnd(s, i + 1) ELSE i

\* the path asked about begins with two separators
TwoSeparators ==
  /\ call.op \in RootOps
  /\ path_style = CWK_STYLE_WINDOWS
  /\ Len(Asked) >= 2
  /\ Asked[1] \in SeparatorChars
  /\ Asked[2] \in SeparatorChars

\* two separators, then '.' or '?', then a separator
DevicePrefix ==
  /\ TwoSeparators
  /\ Len(Asked) >= 4
  /\ Asked[3] \in {".", "?"}
  /\ Asked[4] \in SeparatorChars

\* where the server name ends, where the share name starts and where it ends
ServerEnd == NameEnd(Asked, 3)

ShareStart == SeparatorsEnd(Asked, ServerEnd)

ShareEnd == NameEnd(Asked, ShareStart)

\* a separator follows the share name
ShareClosed == ShareEnd <= Len(Asked)

\* the two separators, the server name, the separators after it, the share name and one
\* separator after the share name if there is one
NetworkRoot == IF ShareClosed THEN ShareEnd ELSE ShareEnd - 1

\* C14: under the Windows style the root of a path that begins with two separators and is no
\* device prefix is the two separators, the server name, the separators after it, the share name
\* and one separator after the share name if present; with a server name, a share name and a
\* separator after it the path is absolute.
C14_NetworkRoot ==
  TwoSeparators /\ ~DevicePrefix =>
    /\ call.op = "get_root" => call.ret = NetworkRoot
    /\ ServerEnd > 3 /\ ShareEnd > ShareStart /\ ShareClosed => Answer(NetworkRoot, TRUE)

\* C14 happens: a server, a share and a rest
C14_Witness ==
  /\ TwoSeparators
  /\ ~DevicePrefix
  /\ ServerEnd > 3
  /\ ShareEnd > ShareStart
  /\ ShareEnd < Len(Asked)
  /\ call.op = "is_absolute"
  /\ call.ret

DeviceUNC ==
  /\ DevicePrefix
  /\ Len(Asked) >= 8
  /\ SubSeq(Asked, 5, 7) = <<"U", "N", "C">>
  /\ Asked[8] \in SeparatorChars
  /\ NameEnd(Asked, 9) > 9
  /\ NameEnd(Asked, 9) <= Len(Asked)
  /\ NameEnd(Asked, SeparatorsEnd(Asked, NameEnd(Asked, 9))) > SeparatorsEnd(Asked, NameEnd(Asked, 9))

\* C16: under the Windows style the root of a UNC path given over a device prefix extends beyond
\* the 4 characters of the prefix, and the path is absolute.
C16_DeviceUNCRoot ==
  DeviceUNC =>
    CASE call.op = "get_root" -> call.ret > 4
      [] call.op = "is_absolute" -> call.ret
      [] call.op = "is_relative" -> ~call.ret

\* the path asked about begins with the character c
BeginsWith(c) == Len(Asked) >= 1 /\ Asked[1] = c

\* the path asked about begins with exactly one of the characters '/' and backslash
OneSeparator ==
  /\ BeginsWith("/") \/ BeginsWith("\\")
  /\ Len(Asked) >= 2 => Asked[2] \notin {"/", "\\"}

\* C17: under the Unix style the root is 1 exactly when the path begins with '/' and 0 otherwise,
\* so that a path that begins with a backslash or a drive prefix is relative; under the Windows
\* style a path that begins with exactly one separator, '/' or backslash, has a root of 1 and is
\* absolute.
C17_SeparatorsOfStyle ==
  call.op \in RootOps =>
    /\ path_style = CWK_STYLE_UNIX => Answer(IF BeginsWith("/") THEN 1 ELSE 0, BeginsWith("/"))
    /\ path_style = CWK_STYLE_WINDOWS /\ OneSeparator => Answer(1, TRUE)

\* C17 happens: a drive prefix under the Unix style
C17_Witness ==
  /\ call.op = "is_relative"
  /\ call.ret
  /\ path_style = CWK_STYLE_UNIX
  /\ Len(Asked) >= 3
  /\ SubSeq(Asked, 1, 3) = <<"a", ":", "\\">>

\* C18: get_relative writes the empty string and returns 0 whenever the roots of the base and
\* of the path differ in length or in text under the case rule of the style.
C18_RelativeRootsDiffer ==
  call.op = "get_relative" /\ ~RootsMatch(PathA, PathB) =>
    /\ Result = <<>>
    /\ call.ret = 0

\* C18 happens: roots of the same length that differ in text
C18_Witness ==
  /\ call.op = "get_relative"
  /\ ~RootsMatch(PathA, PathB)
  /\ get_root(mem, path_style, PathA) = get_root(mem, path_style, PathB)
  /\ get_root(mem, path_style, PathA) = 3
  /\ Result = <<>>

\* s without the separators at its start, and without those at its end
RECURSIVE TrimLeft(_)
TrimLeft(s) == IF s # <<>> /\ Head(s) \in SeparatorChars THEN TrimLeft(Tail(s)) ELSE s

RECURSIVE TrimRight(_)
TrimRight(s) == IF s # <<>> /\ s[Len(s)] \in SeparatorChars THEN TrimRight(SubSeq(s, 1, Len(s) - 1)) ELSE s

Trim(s) == TrimRight(TrimLeft(s))

\* the indices of the characters of s after its first root characters that are no separators
NameIndices(s, root) == {i \in (root + 1)..Len(s) : s[i] \notin SeparatorChars}

\* the index of the last character of the last segment, and of its first character
LastSegmentEnd(s, root) == CHOOSE i \in NameIndices(s, root) : \A j \in NameIndices(s, root) : j <= i

LastSegmentBegin(s, root) == CHOOSE i \in NameIndices(s, root) : (i..LastSegmentEnd(s, root)) \subseteq NameIndices(s, root) /\ (i - 1) \notin NameIndices(s, root)

\* s with its last segment replaced by the trimmed n; its root followed by the trimmed n if it has no segment
WithBasename(s, root, n) ==
  IF NameIndices(s, root) = {} THEN SubSeq(s, 1, root) \o Trim(n)
  ELSE SubSeq(s, 1, LastSegmentBegin(s, root) - 1) \o Trim(n) \o SubSeq(s, LastSegmentEnd(s, root) + 1, Len(s))

\* what change_basename is expected to write for the last call
NewPath == WithBasename(CStr(mem, call.args[1]), get_root(mem, path_style, call.args[1]), CStr(mem, call.args[2]))

\* C19: change_basename writes the path up to the start of its last segment, the new basename
\* without its leading and trailing separators, and the part of the path after the last segment;
\* for a path without segments, its root and the trimmed basename.  It returns the length of
\* that string.
C19_ChangeBasename ==
  call.op = "change_basename" =>
    /\ Result = NewPath
    /\ call.ret = Len(NewPath)

\* C19 happens: a last segment with something after it, and a basename trimmed on both sides
C19_Witness ==
  /\ call.op = "change_basename"
  /\ NameIndices(CStr(mem, PathA), get_root(mem, path_style, PathA)) # {}
  /\ LastSegmentEnd(CStr(mem, PathA), get_root(mem, path_style, PathA)) < Len(CStr(mem, PathA))
  /\ LastSegmentBegin(CStr(mem, PathA), get_root(mem, path_style, PathA)) > 1
  /\ Len(Trim(CStr(mem, PathB))) = 1
  /\ Len(CStr(mem, PathB)) = 3
  /\ Result = NewPath

\* a step in which get_next_segment or get_previous_segment returns false
NoFurtherSegment == call'.op \in {"get_next_segment", "get_previous_segment"} /\ ~call'.ret

\* C20: when get_next_segment or get_previous_segment returns false, every field of the segment
\* of the caller is left as it was before the call.
C20_SegmentKeptOnFalse == [][NoFurtherSegment => seg' = seg]_vars

\* C20 happens: get_next_segment has returned false on the last segment of a path, which ends in
\* separators
C20_Witness ==
  /\ call.op = "get_next_segment"
  /\ ~call.ret
  /\ seg.size > 0
  /\ mem[seg.end] # NUL

\* a step in which get_last_segment returns false
NoLastSegment == call'.op = "get_last_segment" /\ ~call'.ret

\* C21: when get_last_segment returns false because the path has no segment, the segment of the
\* caller is not modified.
C21_LastSegmentKeptOnFalse == [][NoLastSegment => seg' = seg]_vars

\* the indices of s that hold a slash or a backslash, and those that hold a dot
Slashes(s) == {i \in 1..Len(s) : s[i] \in {"/", "\\"}}

Dots(s) == {i \in 1..Len(s) : s[i] = "."}

\* the style of the first slash or backslash of s
FirstSlashStyle(s) == IF s[CHOOSE i \in Slashes(s) : \A j \in Slashes(s) : i <= j] = "/" THEN CWK_STYLE_UNIX ELSE CWK_STYLE_WINDOWS

\* the guess for the string s whose root under the Windows style has the given length
Guess(s, windows_root) ==
  IF windows_root > 1 THEN CWK_STYLE_WINDOWS
  ELSE IF Slashes(s) # {} THEN FirstSlashStyle(s)
  ELSE IF s = <<>> \/ s[1] = "." THEN CWK_STYLE_UNIX
  ELSE IF Dots(s) # {} THEN CWK_STYLE_WINDOWS
  ELSE CWK_STYLE_UNIX

\* C22: guess_style returns WINDOWS when the root of the path under the Windows style is longer
\* than one character; otherwise the style of the first slash or backslash of the path; otherwise
\* UNIX for an empty path or one that begins with a dot, WINDOWS for one that holds a dot, and
\* UNIX for the others.
C22_GuessStyle ==
  call.op = "guess_style" => call.ret = Guess(Asked, get_root_windows(mem, CWK_STYLE_WINDOWS, call.args[1]))

\* the style the instance is not configured with
OtherStyle == IF path_style = CWK_STYLE_WINDOWS THEN CWK_STYLE_UNIX ELSE CWK_STYLE_WINDOWS

\* C30: guess_style depends on the path only: it returns the same style whether the instance is
\* configured with CWK_STYLE_WINDOWS or with CWK_STYLE_UNIX.
C30_GuessIgnoresStyle ==
  call.op = "guess_style" => call.ret = guess_style(mem, OtherStyle, call.args[1])

\* the memory with every cell between the NUL of the path asked about and the buffer set to c
Beyond(c) == SubSeq(mem, 1, call.args[1] + Len(Asked)) \o [i \in 1..(Buffer - call.args[1] - Len(Asked) - 1) |-> c] \o SubSeq(mem, Buffer, Len(mem))

\* characters that would change a root if they were read: a separator, a colon, a device mark
RootChars == {"/", ":", "?"}

\* C26: get_root returns a length between 0 and the length of the path, and the length does not
\* depend on any character after the NUL of the path: none of them is read.
C26_RootWithinPath ==
  call.op = "get_root" =>
    /\ call.ret \in 0..Len(Asked)
    /\ \A c \in RootChars : get_root(Beyond(c), path_style, call.args[1]) = call.ret

\* C26 happens: a network root that is the whole path
C26_Witness ==
  /\ call.op = "get_root"
  /\ call.ret = Len(Asked)
  /\ call.ret >= 2
  /\ TwoSeparators

\* the path whose segments are visited, and the length of its root
Walked == CStr(mem, PathA)

WalkedRoot == get_root(mem, path_style, PathA)

\* the indices in the path of the first and of the last character of the segment s
FirstIndex(s) == s.begin - PathA + 1

LastIndex(s) == s.end - PathA

\* s is a non-empty maximal run of characters of the path that are no separators, after the root
\* and within the string
WellFormed(s) ==
  /\ s.path = PathA
  /\ s.end = s.begin + s.size
  /\ s.size > 0
  /\ FirstIndex(s) > WalkedRoot
  /\ LastIndex(s) <= Len(Walked)
  /\ \A i \in FirstIndex(s)..LastIndex(s) : Walked[i] \notin SeparatorChars
  /\ FirstIndex(s) = WalkedRoot + 1 \/ Walked[FirstIndex(s) - 1] \in SeparatorChars
  /\ LastIndex(s) = Len(Walked) \/ Walked[LastIndex(s) + 1] \in SeparatorChars

\* C27: the segment a successful get_first_segment yields, and the segment after any sequence of
\* get_next_segment and get_previous_segment on it, is a non-empty maximal run of characters of
\* the path that are no separators, starts at or after the end of the root and ends within the
\* string; a successful get_previous_segment directly after a successful get_next_segment
\* restores the segment the pair started from.
C27_SegmentWellFormed ==
  [][/\ call'.op \in {"get_first_segment", "get_last_segment"} /\ call'.ret => WellFormed(seg')
     /\ WellFormed(seg) /\ call'.op \in {"get_next_segment", "get_previous_segment"} => WellFormed(seg')
     /\ call.op = "get_next_segment" /\ call.ret /\ call'.op = "get_previous_segment" /\ call'.ret => seg' = call.args[1]]_vars

\* C27 happens: get_previous_segment has brought back the segment get_next_segment was called on
C27_Witness ==
  /\ call.op = "get_previous_segment"
  /\ call.ret
  /\ WellFormed(seg)
  /\ WellFormed(call.args[1])
  /\ get_next_segment(mem, path_style, seg).segment = call.args[1]
  /\ WalkedRoot > 0

\* the fragments of the last call, as the NULL-terminated array join_and_normalize_multiple takes
Fragments == Append(call.args, NULL)

\* the segments of the joined fragments that survive elision
JoinedSurvivors == SurvivorsFrom(get_first_segment_joined(mem, path_style, Fragments), is_absolute(mem, path_style, call.args[1]))

\* the string the last call writes into a buffer that is large enough
Whole == CStr(Untruncated.mem, Buffer)

\* C28: join, join_multiple and normalize never produce an empty output: when the first fragment
\* has no root and no segment is written, because there is none or because all are elided, the
\* result is the single character '.'.
C28_NeverEmpty ==
  call.op \in {"join", "join_multiple", "normalize"} =>
    /\ Whole # <<>>
    /\ get_root(mem, path_style, call.args[1]) = 0 /\ JoinedSurvivors = <<>> => Whole = <<".">>

\* the fragments of the joined stream the caller walks, as addresses and as texts
Walking == SubSeq(joined.paths, 1, Len(joined.paths) - 1)

FragmentText(k) == CStr(mem, Walking[k + 1])

RECURSIVE RunEnd(_, _)
\* the index of the last character of the run of characters that are no separators and that holds s[i]
RunEnd(s, i) == IF i + 1 <= Len(s) /\ s[i + 1] \notin SeparatorChars THEN RunEnd(s, i + 1) ELSE i

RECURSIVE RunsFrom(_, _, _)
\* the maximal runs of characters of s that are no separators, from index i on, each with the
\* number k of its fragment and the indices of its first and last character
RunsFrom(s, k, i) ==
  IF i > Len(s) THEN <<>>
  ELSE IF s[i] \in SeparatorChars THEN RunsFrom(s, k, i + 1)
  ELSE <<[index |-> k, first |-> i, last |-> RunEnd(s, i)]>> \o RunsFrom(s, k, RunEnd(s, i) + 1)

RECURSIVE PiecesFrom(_)
\* the segments of the fragments k, k + 1, ...: fragment 0 after its root, every other fragment
\* from its first character
PiecesFrom(k) ==
  IF k >= Len(Walking) THEN <<>>
  ELSE RunsFrom(FragmentText(k), k, IF k = 0 THEN get_root(mem, path_style, Walking[1]) + 1 ELSE 1) \o PiecesFrom(k + 1)

\* where the segment of a cwk_segment_joined lies
Location(sj) ==
  [index |-> sj.path_index,
   first |-> sj.segment.begin - PathAt(sj.paths, sj.path_index) + 1,
   last |-> sj.segment.begin - PathAt(sj.paths, sj.path_index) + sj.segment.size]

RECURSIVE ForwardWalk(_)
\* the locations the forward walk yields from the outcome r of a walking function on
ForwardWalk(r) == IF ~r.result THEN <<>> ELSE <<Location(r.sj)>> \o ForwardWalk(get_next_segment_joined(mem, path_style, r.sj))

IsSuffix(s, t) == Len(s) <= Len(t) /\ s = SubSeq(t, Len(t) - Len(s) + 1, Len(t))

\* C24: the forward walk over the fragments f0..fn yields the segments of f0 after its root and
\* then, for each i >= 1 in order, the segments of fi parsed from its first character; the root
\* is stripped from fragment 0 only, also when f0 or further leading fragments hold no segment.
C24_JoinedStream ==
  /\ call.op = "get_first_segment_joined" => ForwardWalk([result |-> call.ret, sj |-> joined]) = PiecesFrom(0)
  /\ Positioned => IsSuffix(ForwardWalk(FoundJoined(joined)), PiecesFrom(0))

RECURSIVE ForwardStates(_)
\* the cwk_segment_joined structures the forward walk passes through from the outcome r on
ForwardStates(r) == IF ~r.result THEN <<>> ELSE <<r.sj>> \o ForwardStates(get_next_segment_joined(mem, path_style, r.sj))

RECURSIVE BackwardWalk(_)
\* the locations the backward walk yields from the outcome r of get_previous_segment_joined on
BackwardWalk(r) == IF ~r.result THEN <<>> ELSE <<Location(r.sj)>> \o BackwardWalk(get_previous_segment_joined(mem, path_style, r.sj))

Reverse(s) == [i \in 1..Len(s) |-> s[Len(s) + 1 - i]]

\* the forward walk over the fragments of the caller, from get_first_segment_joined on
Forward == ForwardStates(get_first_segment_joined(mem, path_style, joined.paths))

\* C25: walking backward with get_previous_segment_joined from any segment the forward walk
\* reached visits exactly the segments the forward walk yielded before it, in reverse order, and
\* then returns false.
C25_BackwardIsReverse ==
  joined.paths # <<>> =>
    \A k \in 1..Len(Forward) :
      joined = Forward[k] =>
        BackwardWalk(get_previous_segment_joined(mem, path_style, joined)) = Reverse([i \in 1..(k - 1) |-> Location(Forward[i])])

\* the characters of the segment at a location
SegmentText(l) == SubSeq(FragmentText(l.index), l.first, l.last)

RECURSIVE StackPass(_, _, _, _)
\* one pass from left to right over the segments i, i + 1, ... of the stream s, with the stack
\* of the normal segments that are pending: the set of the segments it elides
StackPass(s, i, stack, absolute) ==
  IF i > Len(s) THEN {}
  ELSE IF SegmentText(s[i]) = <<".">> THEN {i} \cup StackPass(s, i + 1, stack, absolute)
  ELSE IF SegmentText(s[i]) # <<".", ".">> THEN StackPass(s, i + 1, Append(stack, i), absolute)
  ELSE IF stack # <<>> THEN {stack[Len(stack)], i} \cup StackPass(s, i + 1, SubSeq(stack, 1, Len(stack) - 1), absolute)
  ELSE (IF absolute THEN {i} ELSE {}) \cup StackPass(s, i + 1, stack, absolute)

\* the stream of the forward walk, as locations
Stream == [i \in 1..Len(Forward) |-> Location(Forward[i])]

\* C23: segment_will_be_removed reports a segment of the joined stream as elided exactly when
\* one stack pass from left to right over the stream elides it: every '.' is elided, a normal
\* segment is pushed, a '..' pops the top normal segment and both are elided, and with an empty
\* stack the '..' is elided if and only if the path is absolute.
C23_ElisionIsStackPass ==
  call.op = "segment_will_be_removed" =>
    \A k \in 1..Len(Stream) :
      Stream[k] = Location(joined) => (call.ret <=> k \in StackPass(Stream, 1, <<>>, call.args[1]))

\* the calls of get_root that have returned
Returns == {t \in Threads : running[t].pc = "returned"}

\* C29: when no set_style overlaps a call of get_root, the call returns what it returns when it
\* runs alone under the style of the instance, whatever calls of other threads run at the same
\* time; a set_style that overlaps a call can make it return what it returns alone under neither
\* style.
C29_SequentialWithoutOverlap ==
  \A t \in Returns : ~running[t].overlapped => running[t].length = get_root(mem, running[t].began, running[t].path)

\* C29 happens: a call that set_style overlapped has returned what get_root returns under
\* neither style, while the call of another thread that no set_style overlapped has returned
C29_Witness ==
  \E t \in Returns, u \in Returns :
    /\ running[t].overlapped
    /\ \A ps \in Styles : running[t].length # get_root(mem, ps, running[t].path)
    /\ ~running[u].overlapped

====
